---------------------------- MODULE Spec2Model ----------------------------
(***************************************************************************)
(* A model of the Athena adapter of data-diff                              *)
(* (src/data_diff/databases/athena.py) and of the report projection that   *)
(* src/tests/test_format.py exercises.                                     *)
(*                                                                         *)
(* Three specifications share the variables:                               *)
(*   Spec         the Athena database object: construction, table path     *)
(*                normalisation, query execution on cursors, close;        *)
(*   SpecDialect  the pure functions of the dialect (parse_type,           *)
(*                normalize_timestamp), applied to an input drawn by Init; *)
(*   SpecFormat   the report projection jsonify, applied to a diff drawn   *)
(*                by Init.                                                 *)
(* Text is modelled as a sequence of one-character strings so that         *)
(* lower(), startswith() and the regular expressions are computed, not     *)
(* assumed.                                                                *)
(***************************************************************************)
EXTENDS Integers, Sequences, FiniteSets, TLC

VARIABLES
    default_schema,  \* Athena.default_schema
    conn,            \* state of Athena._conn: "open" or "closed"
    is_closed,       \* Database.is_closed, set by super().close()
    cursors,         \* number of cursors obtained from _conn and not closed
    call,            \* the last call on the Athena object: op, arg, outcome
    pc,              \* SpecDialect / SpecFormat: "start" or "done"
    input,           \* SpecDialect / SpecFormat: the drawn input
    output           \* SpecDialect / SpecFormat: the function's result

vars == <<default_schema, conn, is_closed, cursors, call, pc, input, output>>

\* Python's None among strings (a report value)
None == "None"

\* no argument, no result, no input, no output
Nothing == <<>>

-----------------------------------------------------------------------------
(* Bounds of the model *)

\* longest table path given to _normalize_table_path
MaxPathLen == 4
\* cursors that one Athena object obtains before the model stops querying
MaxCursors == 2
\* statements of one ThreadLocalInterpreter batch
MaxBatch == 2

-----------------------------------------------------------------------------
(* Text *)

LowerCase == <<"a","b","c","d","e","f","g","h","i","j","k","l","m",
               "n","o","p","q","r","s","t","u","v","w","x","y","z">>
UpperCase == <<"A","B","C","D","E","F","G","H","I","J","K","L","M",
               "N","O","P","Q","R","S","T","U","V","W","X","Y","Z">>

\* str.lower() on one character
LowerCh(c) ==
    IF \E i \in 1..Len(UpperCase) : UpperCase[i] = c
    THEN LowerCase[CHOOSE i \in 1..Len(UpperCase) : UpperCase[i] = c]
    ELSE c

UpperCh(c) ==
    IF \E i \in 1..Len(LowerCase) : LowerCase[i] = c
    THEN UpperCase[CHOOSE i \in 1..Len(LowerCase) : LowerCase[i] = c]
    ELSE c

\* str.lower()
Lower(s) == [i \in 1..Len(s) |-> LowerCh(s[i])]

Upper(s) == [i \in 1..Len(s) |-> UpperCh(s[i])]

\* only the first letter in upper case
Title(s) == [i \in 1..Len(s) |-> IF i = 1 THEN UpperCh(s[i]) ELSE s[i]]

\* str.startswith(prefix)
StartsWith(s, prefix) ==
    /\ Len(s) >= Len(prefix)
    /\ SubSeq(s, 1, Len(prefix)) = prefix

kw_select   == <<"s","e","l","e","c","t">>
kw_insert   == <<"i","n","s","e","r","t">>
kw_create   == <<"c","r","e","a","t","e">>
kw_truncate == <<"t","r","u","n","c","a","t","e">>
kw_drop     == <<"d","r","o","p">>
kw_explain  == <<"e","x","p","l","a","i","n">>
kw_update   == <<"u","p","d","a","t","e">>
kw_show     == <<"s","h","o","w">>

\* the alternation of the regular expression of query_cursor
MutatingAlternation == {kw_insert, kw_create, kw_truncate, kw_drop, kw_explain}

\* re.match(r"(insert|create|truncate|drop|explain)", sql_code) without
\* re.IGNORECASE: case-sensitive, anchored at the start only
re_match_mutating_case_sensitive(sql_code) ==
    \E k \in MutatingAlternation : StartsWith(sql_code, k)

\* re.match(r"(insert|create|truncate|drop|explain)", sql_code, re.IGNORECASE):
\* anchored at the start of the text, any letter case
re_match_mutating(sql_code) ==
    \E k \in MutatingAlternation : StartsWith(Lower(sql_code), k)

-----------------------------------------------------------------------------
(* The statements given to the query path.  A statement is described by its *)
(* leading keyword, letter case and leading whitespace; `text` is what the  *)
(* code sees.                                                               *)

Keywords == [select |-> kw_select, insert |-> kw_insert, create |-> kw_create,
             truncate |-> kw_truncate, drop |-> kw_drop,
             explain |-> kw_explain, update |-> kw_update, show |-> kw_show]

MutatingKeywords == {"insert", "create", "truncate", "drop", "explain"}

Casing(c, s) == CASE c = "lower" -> s
                  [] c = "upper" -> Upper(s)
                  [] c = "title" -> Title(s)

StatementText(lead, kw, casing) ==
    (IF lead THEN <<" ">> ELSE <<>>) \o Casing(casing, Keywords[kw]) \o <<" ", "x">>

Statements ==
    { [lead |-> l, kw |-> k, casing |-> c, text |-> StatementText(l, k, c)] :
        l \in BOOLEAN, k \in DOMAIN Keywords, c \in {"lower", "upper", "title"} }

\* the statements of ThreadLocalInterpreter batches
BatchStatements ==
    { s \in Statements : ~s.lead /\ s.casing = "lower"
                         /\ s.kw \in {"select", "insert", "update"} }

-----------------------------------------------------------------------------
(* query_cursor(c, sql_code): the cursor operations it performs, in order,  *)
(* and what it returns.  `ok` is whether c.execute succeeds; when it raises *)
(* the exception leaves query_cursor.  The result is the full row set of    *)
(* the statement (fetchall), its single row (fetchone) or Python's None.    *)

NoResult == [kind |-> "none"]

query_cursor_no_ignorecase(sql_code, ok) ==
    LET executed == << <<"execute", sql_code>> >> IN
    IF ~ok THEN [trace |-> executed, raised |-> TRUE, ret |-> NoResult]
    ELSE IF StartsWith(Lower(sql_code), kw_select)
    THEN [trace |-> executed \o << <<"fetchall">> >>, raised |-> FALSE,
          ret |-> [kind |-> "rows", of |-> sql_code]]
    ELSE IF re_match_mutating_case_sensitive(sql_code)
    THEN [trace |-> executed \o << <<"fetchone">> >>, raised |-> FALSE,
          ret |-> [kind |-> "row", of |-> sql_code]]
    ELSE [trace |-> executed, raised |-> FALSE, ret |-> NoResult]

query_cursor(sql_code, ok) ==
    LET executed == << <<"execute", sql_code>> >> IN
    IF ~ok THEN [trace |-> executed, raised |-> TRUE, ret |-> NoResult]
    ELSE IF StartsWith(Lower(sql_code), kw_select)
    THEN [trace |-> executed \o << <<"fetchall">> >>, raised |-> FALSE,
          ret |-> [kind |-> "rows", of |-> sql_code]]
    ELSE IF re_match_mutating(sql_code)
    THEN [trace |-> executed \o << <<"fetchone">> >>, raised |-> FALSE,
          ret |-> [kind |-> "row", of |-> sql_code]]
    ELSE [trace |-> executed, raised |-> FALSE, ret |-> NoResult]

-----------------------------------------------------------------------------
(* ThreadLocalInterpreter.apply_queries(callback): the statements of the    *)
(* batch are applied in order through the callback, here query_cursor on    *)
(* the one cursor of the call.  `failing` is the index of the statement     *)
(* whose execute raises (0: none); the exception ends the batch.            *)

RECURSIVE apply_queries_from(_, _, _)
apply_queries_from(stmts, failing, i) ==
    IF i > Len(stmts) THEN [trace |-> <<>>, raised |-> FALSE, ret |-> <<>>]
    ELSE LET r == query_cursor(stmts[i].text, i # failing) IN
         IF r.raised THEN [trace |-> r.trace, raised |-> TRUE, ret |-> NoResult]
         ELSE LET rest == apply_queries_from(stmts, failing, i + 1) IN
              [trace  |-> r.trace \o rest.trace,
               raised |-> rest.raised,
               ret    |-> IF rest.raised THEN NoResult ELSE <<r.ret>> \o rest.ret]

apply_queries(stmts, failing) == apply_queries_from(stmts, failing, 1)

-----------------------------------------------------------------------------
(* Athena *)

\* the `schema` keyword of Athena.__init__: absent, empty or given
SchemaKeywords == {None, "", "analytics"}

\* kw.get("schema") is truthy
Truthy(x) == x # None /\ x # ""

PathComponents == {"sales", "orders"}

RECURSIVE SeqsUpTo(_, _)
\* the sequences over S of length at most n
SeqsUpTo(S, n) ==
    IF n = 0 THEN {<<>>}
    ELSE LET shorter == SeqsUpTo(S, n - 1) IN
         shorter \cup { Append(q, x) : q \in {r \in shorter : Len(r) = n - 1}, x \in S }

TablePaths == SeqsUpTo(PathComponents, MaxPathLen)

Batches == SeqsUpTo(BatchStatements, MaxBatch) \ {<<>>}

\* _normalize_table_path where a path without components falls back to the
\* default schema and an empty table name instead of raising
normalize_table_path_no_raise(schema, path) ==
    IF Len(path) = 1 THEN [raised |-> FALSE, ret |-> <<schema, path[1]>>]
    ELSE IF Len(path) = 2 THEN [raised |-> FALSE, ret |-> path]
    ELSE IF Len(path) > 2 THEN [raised |-> FALSE, ret |-> <<path[2], path[3]>>]
    ELSE [raised |-> FALSE, ret |-> <<schema, "">>]

\* Athena._normalize_table_path(path), `schema` being self.default_schema.
\* Python's path[0], path[1], path[2] are path[1], path[2], path[3] here.
normalize_table_path(schema, path) ==
    IF Len(path) = 1 THEN [raised |-> FALSE, ret |-> <<schema, path[1]>>]
    ELSE IF Len(path) = 2 THEN [raised |-> FALSE, ret |-> path]
    ELSE IF Len(path) > 2 THEN [raised |-> FALSE, ret |-> <<path[2], path[3]>>]
    ELSE [raised |-> TRUE, ret |-> Nothing]

\* Athena.select_table_schema(path): the text of the query, given by the
\* two values it interpolates; the error of _normalize_table_path propagates
select_table_schema(schema, path) ==
    LET n == normalize_table_path(schema, path) IN
    IF n.raised THEN n
    ELSE [raised |-> FALSE,
          ret |-> [table_name |-> n.ret[2], table_schema |-> n.ret[1]]]

Idle == pc = "idle" /\ input = Nothing /\ output = Nothing

\* Athena.__init__(**kw)
Init ==
    /\ \E schema \in SchemaKeywords :
        /\ default_schema = IF Truthy(schema) THEN schema ELSE "public"
        /\ call = [op |-> "__init__", arg |-> <<schema>>, raised |-> FALSE,
                   ret |-> Nothing, trace |-> <<>>]
    /\ conn = "open"
    /\ is_closed = FALSE
    /\ cursors = 0
    /\ Idle

NormalizeTablePath ==
    \E path \in TablePaths :
        LET r == normalize_table_path(default_schema, path) IN
        /\ call' = [op |-> "_normalize_table_path", arg |-> path,
                    raised |-> r.raised, ret |-> r.ret, trace |-> <<>>]
        /\ UNCHANGED <<default_schema, conn, is_closed, cursors, pc, input, output>>

SelectTableSchema ==
    \E path \in TablePaths :
        LET r == select_table_schema(default_schema, path) IN
        /\ call' = [op |-> "select_table_schema", arg |-> path,
                    raised |-> r.raised, ret |-> r.ret, trace |-> <<>>]
        /\ UNCHANGED <<default_schema, conn, is_closed, cursors, pc, input, output>>

\* Athena._query(sql_code), sql_code a string: a cursor is obtained from the
\* connection and handed to query_cursor; nothing closes it
Query ==
    /\ ~is_closed
    /\ cursors < MaxCursors
    /\ \E stmt \in Statements, ok \in BOOLEAN :
        LET r == query_cursor(stmt.text, ok) IN
        /\ cursors' = cursors + 1
        /\ call' = [op |-> "_query", arg |-> stmt, raised |-> r.raised,
                    ret |-> r.ret, trace |-> r.trace]
    /\ UNCHANGED <<default_schema, conn, is_closed, pc, input, output>>

\* Athena._query(sql_code), sql_code a ThreadLocalInterpreter
QueryBatch ==
    /\ ~is_closed
    /\ cursors < MaxCursors
    /\ \E stmts \in Batches :
        \E failing \in 0..Len(stmts) :
            LET r == apply_queries(stmts, failing) IN
            /\ cursors' = cursors + 1
            /\ call' = [op |-> "_query_batch", arg |-> stmts, raised |-> r.raised,
                        ret |-> r.ret, trace |-> r.trace]
    /\ UNCHANGED <<default_schema, conn, is_closed, pc, input, output>>

\* Athena.close(): super().close(), then self._conn.close().  Whether the
\* driver's connection closes the cursors it handed out is the driver's
\* choice; the adapter itself closes none.
Close ==
    /\ ~is_closed
    /\ is_closed' = TRUE
    /\ conn' = "closed"
    /\ \E driver_closes_cursors \in BOOLEAN :
        cursors' = IF driver_closes_cursors THEN 0 ELSE cursors
    /\ call' = [op |-> "close", arg |-> Nothing, raised |-> FALSE,
                ret |-> Nothing, trace |-> <<>>]
    /\ UNCHANGED <<default_schema, pc, input, output>>

Next ==
    \/ NormalizeTablePath
    \/ SelectTableSchema
    \/ Query
    \/ QueryBatch
    \/ Close

Spec == Init /\ [][Next]_vars

-----------------------------------------------------------------------------
(* Claims about the Athena object (specification Spec) *)

\* the cursor operations of the last call that are executes
Executes(trace) == { i \in 1..Len(trace) : trace[i][1] = "execute" }

\* C1: for every path with at least one component, _normalize_table_path
\* returns (default schema, component) for one component, the path itself for
\* two, and the LAST two components for three or more.
C1_LastTwoComponents ==
    (call.op = "_normalize_table_path" /\ Len(call.arg) >= 1) =>
        /\ ~call.raised
        /\ LET n == Len(call.arg) IN
           call.ret = IF n = 1 THEN <<default_schema, call.arg[1]>>
                      ELSE IF n = 2 THEN call.arg
                      ELSE <<call.arg[n - 1], call.arg[n]>>

C5_RowsOrLastRow ==
    (call.op = "_query" /\ ~call.raised) =>
        /\ Cardinality(Executes(call.trace)) = 1
        /\ call.ret.kind \in {"rows", "row"}

\* C6: when _query has returned or raised, on the single-statement and on the
\* batch path, the cursor it acquired is released; after close() no cursor
\* is open and the connection is closed.
C6_CursorsReleased ==
    /\ call.op \in {"_query", "_query_batch"} => cursors = 0
    /\ is_closed => (cursors = 0 /\ conn = "closed")

\* C9: a path without components makes _normalize_table_path (and
\* select_table_schema, which calls it) fail at once: an error and no
\* (schema, table) pair, no cursor operation, and the default schema, the
\* connection and the cursors as they were.
C9_BadPathFailsFast ==
    [][ (/\ call'.op \in {"_normalize_table_path", "select_table_schema"}
         /\ call'.arg = <<>>) =>
            /\ call'.raised
            /\ call'.ret = Nothing
            /\ call'.trace = <<>>
            /\ UNCHANGED <<default_schema, conn, is_closed, cursors>> ]_vars

C9_Witness ==
    /\ call.op = "select_table_schema"
    /\ call.arg = <<>>
    /\ call.raised
    /\ cursors > 0

-----------------------------------------------------------------------------
(* Dialect.parse_type.  A native type name is text; a ColumnType is a       *)
(* record tagged by its class.  match_regexps tries each pattern with "$"   *)
(* appended, so a pattern has to match the whole type name.                 *)

\* bound: nesting depth of the type names drawn as inputs
MaxTypeDepth == 2

txt_integer      == <<"i","n","t","e","g","e","r">>
txt_timestamp_op == <<"t","i","m","e","s","t","a","m","p","(">>
txt_with_tz      == <<" ","w","i","t","h"," ","t","i","m","e"," ","z","o","n","e">>
txt_decimal_op   == <<"d","e","c","i","m","a","l","(">>
txt_array_op     == <<"a","r","r","a","y","(">>
txt_struct_op    == <<"s","t","r","u","c","t","<">>
txt_varchar_op   == <<"v","a","r","c","h","a","r","(">>
txt_char_op      == <<"c","h","a","r","(">>

DigitChars == <<"0","1","2","3","4","5","6","7","8","9">>

IsDigit(c) == \E i \in 1..Len(DigitChars) : DigitChars[i] = c

DigitValue(c) == (CHOOSE i \in 1..Len(DigitChars) : DigitChars[i] = c) - 1

\* \d+
IsDigits(s) == Len(s) >= 1 /\ \A i \in 1..Len(s) : IsDigit(s[i])

RECURSIVE IntOf(_)
\* int(s) of a string of digits
IntOf(s) ==
    IF Len(s) = 0 THEN 0
    ELSE 10 * IntOf(SubSeq(s, 1, Len(s) - 1)) + DigitValue(s[Len(s)])

EndsWith(s, suffix) ==
    /\ Len(s) >= Len(suffix)
    /\ SubSeq(s, Len(s) - Len(suffix) + 1, Len(s)) = suffix

\* the text between a prefix and a suffix of s
Between(s, prefix, suffix) == SubSeq(s, Len(prefix) + 1, Len(s) - Len(suffix))

RECURSIVE Split(_, _)
\* str.split(sep), sep one character: the pieces between the separators
Split(s, sep) ==
    IF \A i \in 1..Len(s) : s[i] # sep THEN <<s>>
    ELSE LET k == CHOOSE i \in 1..Len(s) :
                    s[i] = sep /\ \A j \in 1..(i - 1) : s[j] # sep
         IN <<SubSeq(s, 1, k - 1)>> \o Split(SubSeq(s, k + 1, Len(s)), sep)

\* r"timestamp\((\d)\)"
re_timestamp(s) ==
    /\ Len(s) = Len(txt_timestamp_op) + 2
    /\ StartsWith(s, txt_timestamp_op)
    /\ IsDigit(s[Len(s) - 1])
    /\ s[Len(s)] = ")"

\* r"timestamp\((\d)\) with time zone"
re_timestamp_tz(s) ==
    /\ EndsWith(s, txt_with_tz)
    /\ re_timestamp(SubSeq(s, 1, Len(s) - Len(txt_with_tz)))

\* r"decimal\((\d+),(\d+)\)"
re_decimal(s) ==
    /\ StartsWith(s, txt_decimal_op)
    /\ EndsWith(s, <<")">>)
    /\ Len(s) > Len(txt_decimal_op) + 1
    /\ LET groups == Split(Between(s, txt_decimal_op, <<")">>), ",") IN
       /\ Len(groups) = 2
       /\ IsDigits(groups[1])
       /\ IsDigits(groups[2])

\* r"array\((.+)\)"
re_array(s) ==
    /\ StartsWith(s, txt_array_op)
    /\ EndsWith(s, <<")">>)
    /\ Len(s) >= Len(txt_array_op) + 2

\* r"struct<(.+)>"
re_struct(s) ==
    /\ StartsWith(s, txt_struct_op)
    /\ EndsWith(s, <<">">>)
    /\ Len(s) >= Len(txt_struct_op) + 2

\* r"varchar\((\d+)\)" and r"char\((\d+)\)"
re_string(s) ==
    \E op \in {txt_varchar_op, txt_char_op} :
        /\ StartsWith(s, op)
        /\ EndsWith(s, <<")">>)
        /\ Len(s) > Len(op) + 1
        /\ IsDigits(Between(s, op, <<")">>))

\* Dialect.ROUNDS_ON_PREC_LOSS
ROUNDS_ON_PREC_LOSS == TRUE

\* Dialect.TYPE_CLASSES: the type names without parameters
TYPE_CLASSES ==
    (txt_integer :> "Integer") @@ (<<"b","i","g","i","n","t">> :> "Integer")
    @@ (<<"r","e","a","l">> :> "Float") @@ (<<"d","o","u","b","l","e">> :> "Float")
    @@ (<<"v","a","r","c","h","a","r">> :> "Text") @@ (<<"s","t","r","i","n","g">> :> "Text")
    @@ (<<"b","o","o","l","e","a","n">> :> "Boolean") @@ (<<"j","s","o","n">> :> "JSON")

\* BaseDialect.parse_type: the class that TYPE_CLASSES gives the type name;
\* a type name it does not know is not guessed
base_parse_type(data_type) ==
    IF data_type \in DOMAIN TYPE_CLASSES THEN [t |-> TYPE_CLASSES[data_type]]
    ELSE [t |-> "UnknownColType", text |-> data_type]

RECURSIVE parse_type(_)
\* Dialect.parse_type(table_path, info), info.data_type being the type name
parse_type(data_type) ==
    IF re_timestamp(data_type)
    THEN [t |-> "Timestamp",
          precision |-> DigitValue(data_type[Len(data_type) - 1]),
          rounds |-> ROUNDS_ON_PREC_LOSS]
    ELSE IF re_timestamp_tz(data_type)
    THEN [t |-> "TimestampTZ",
          precision |-> DigitValue(data_type[Len(txt_timestamp_op) + 1]),
          rounds |-> ROUNDS_ON_PREC_LOSS]
    ELSE IF re_decimal(data_type)
    THEN [t |-> "Decimal",
          scale |-> IntOf(Split(Between(data_type, txt_decimal_op, <<")">>), ",")[2])]
    ELSE IF re_array(data_type)
    THEN [t |-> "Array",
          item_type |-> parse_type(Between(data_type, txt_array_op, <<")">>))]
    ELSE IF re_struct(data_type)
    THEN LET parts == Split(Between(data_type, txt_struct_op, <<">">>), ",") IN
         [t |-> "Struct",
          fields |-> [i \in 1..Len(parts) |-> Split(parts[i], ":")]]
    ELSE IF re_string(data_type)
    THEN [t |-> "Text"]
    ELSE base_parse_type(data_type)

-----------------------------------------------------------------------------
(* The type names drawn as inputs of parse_type: each is the rendering of a *)
(* ColumnType tree, a struct field being the pair <<name, type>>.           *)

LeafTypes ==
    { [t |-> "Integer"],
      [t |-> "Decimal", scale |-> 2],
      [t |-> "Timestamp", precision |-> 3, rounds |-> ROUNDS_ON_PREC_LOSS] }

RECURSIVE TypeTrees(_)
\* the trees of nesting depth at most d: a leaf, an array, a struct of one
\* field, a struct of two fields whose second is a leaf
TypeTrees(d) ==
    IF d = 0 THEN LeafTypes
    ELSE LET sub == TypeTrees(d - 1) IN
         LeafTypes
         \cup { [t |-> "Array", item_type |-> x] : x \in sub }
         \cup { [t |-> "Struct", fields |-> << <<(<<"a">>), x>> >>] : x \in sub }
         \cup { [t |-> "Struct", fields |-> << <<(<<"a">>), x>>, <<(<<"b">>), y>> >>] :
                  x \in sub, y \in LeafTypes }

RECURSIVE Render(_)
\* the native type name of a ColumnType tree
Render(tree) ==
    CASE tree.t = "Integer"   -> txt_integer
      [] tree.t = "Decimal"   ->
            txt_decimal_op \o <<"1", "0", ",", DigitChars[tree.scale + 1], ")">>
      [] tree.t = "Timestamp" ->
            txt_timestamp_op \o <<DigitChars[tree.precision + 1], ")">>
      [] tree.t = "Array"     -> txt_array_op \o Render(tree.item_type) \o <<")">>
      [] tree.t = "Struct"    ->
            LET field(i) == tree.fields[i][1] \o <<":">> \o Render(tree.fields[i][2])
            IN txt_struct_op
               \o field(1)
               \o (IF Len(tree.fields) = 2 THEN <<",">> \o field(2) ELSE <<>>)
               \o <<">">>

ParseInputs ==
    { [fn |-> "parse_type", tree |-> x, data_type |-> Render(x)] :
        x \in TypeTrees(MaxTypeDepth) }

-----------------------------------------------------------------------------
(* Dialect.normalize_timestamp builds an SQL expression; the engine         *)
(* evaluates it on the value of the column.  An expression is a record      *)
(* tagged by its function.                                                  *)

\* the position after the decimal point of '%Y-%m-%d %H:%i:%S.'
TIMESTAMP_PRECISION_POS == 20

\* fractional digits of timestamp(6) and of '%f'
MicroDigits == 6

Column(name) == [fn |-> "column", name |-> name]

CastTimestamp6(e) == [fn |-> "cast", arg |-> e, as |-> "timestamp(6)"]

DateFormat(e) == [fn |-> "date_format", arg |-> e, format |-> "%Y-%m-%d %H:%i:%S.%f"]

Rpad(e, size, padstring) == [fn |-> "rpad", arg |-> e, size |-> size, pad |-> padstring]

\* normalize_timestamp without the inner RPAD that cuts at the precision
normalize_timestamp_no_cut(value, coltype) ==
    LET s == IF coltype.rounds
             THEN DateFormat(CastTimestamp6(value))
             ELSE DateFormat(CastTimestamp6(value))
    IN Rpad(s, TIMESTAMP_PRECISION_POS + 6, "0")

\* normalize_timestamp whose rounds branch rounds to the column's precision
normalize_timestamp_rounding(value, coltype) ==
    LET s == IF coltype.rounds
             THEN DateFormat([fn |-> "cast", arg |-> value, as |-> "timestamp(p)"])
             ELSE DateFormat(CastTimestamp6(value))
    IN Rpad(Rpad(s, TIMESTAMP_PRECISION_POS + coltype.precision, "."),
            TIMESTAMP_PRECISION_POS + 6, "0")

\* Dialect.normalize_timestamp(value, coltype)
normalize_timestamp(value, coltype) ==
    LET s == IF coltype.rounds
             THEN DateFormat(CastTimestamp6(value))
             ELSE DateFormat(CastTimestamp6(value))
    IN Rpad(Rpad(s, TIMESTAMP_PRECISION_POS + coltype.precision, "."),
            TIMESTAMP_PRECISION_POS + 6, "0")

\* a string of n copies of the character c
Repeat(c, n) == [i \in 1..n |-> c]

\* SQL rpad(string, size, padstring): cut to size when longer, padded on the
\* right when shorter
rpad(str, size, padstring) ==
    IF Len(str) >= size THEN SubSeq(str, 1, size)
    ELSE str \o Repeat(padstring, size - Len(str))

\* date_format(t, '%Y-%m-%d %H:%i:%S.%f') of a timestamp(6)
FormatMicros(t) == t.seconds \o <<".">> \o t.micros

RECURSIVE Eval(_, _)
\* the value of an expression on a row whose column holds the timestamp t
Eval(e, t) ==
    CASE e.fn = "column"      -> t
      [] e.fn = "cast"        -> Eval(e.arg, t)
      [] e.fn = "date_format" -> FormatMicros(Eval(e.arg, t))
      [] e.fn = "rpad"        -> rpad(Eval(e.arg, t), e.size, e.pad)

\* the timestamps drawn as column values, to the microsecond
TimestampValues ==
    { [seconds |-> <<"2","0","2","2","-","0","6","-","0","3"," ","1","7",":","2","5",":","3","1">>, micros |-> m] :
        m \in [1..MicroDigits -> {"0", "5"}] }

\* the precisions that r"timestamp\((\d)\)" lets parse_type produce
Precisions == 0..(Len(DigitChars) - 1)

TimestampInputs ==
    { [fn |-> "normalize_timestamp", value |-> Column("created_at"), row |-> v,
       coltype |-> [t |-> "Timestamp", precision |-> p, rounds |-> r]] :
        v \in TimestampValues, p \in Precisions, r \in BOOLEAN }

-----------------------------------------------------------------------------
(* SpecDialect: Init draws the input, one action applies the function *)

NoCall == [op |-> "none", arg |-> Nothing, raised |-> FALSE, ret |-> Nothing, trace |-> <<>>]

NoAthena ==
    /\ default_schema = "public"
    /\ conn = "open"
    /\ is_closed = FALSE
    /\ cursors = 0
    /\ call = NoCall

InitDialect ==
    /\ NoAthena
    /\ pc = "start"
    /\ input \in ParseInputs \cup TimestampInputs
    /\ output = Nothing

ParseType ==
    /\ pc = "start"
    /\ input.fn = "parse_type"
    /\ output' = parse_type(input.data_type)
    /\ pc' = "done"
    /\ UNCHANGED <<default_schema, conn, is_closed, cursors, call, input>>

NormalizeTimestamp ==
    /\ pc = "start"
    /\ input.fn = "normalize_timestamp"
    /\ LET e == normalize_timestamp(input.value, input.coltype) IN
       output' = [expr |-> e, value |-> Eval(e, input.row)]
    /\ pc' = "done"
    /\ UNCHANGED <<default_schema, conn, is_closed, cursors, call, input>>

NextDialect ==
    \/ ParseType
    \/ NormalizeTimestamp

SpecDialect == InitDialect /\ [][NextDialect]_vars

-----------------------------------------------------------------------------
(* Claims about the dialect (specification SpecDialect) *)

\* the first p fractional digits of two timestamps agree, and their seconds
AgreeTo(t1, t2, p) ==
    /\ t1.seconds = t2.seconds
    /\ SubSeq(t1.micros, 1, p) = SubSeq(t2.micros, 1, p)

\* C7: for a precision p from 0 to 6 the normalized timestamp is
\* TIMESTAMP_PRECISION_POS+6 characters wide, begins with the first
\* TIMESTAMP_PRECISION_POS+p characters of the microsecond-formatted
\* timestamp and ends with 6-p characters '0'; every timestamp that agrees
\* with it in the first p fractional digits normalizes to the same string.
C7_PaddedToFixedWidth ==
    (/\ pc = "done"
     /\ input.fn = "normalize_timestamp"
     /\ input.coltype.precision <= 6) =>
        LET p == input.coltype.precision
            s == FormatMicros(input.row)
            w == TIMESTAMP_PRECISION_POS
        IN /\ Len(output.value) = w + 6
           /\ SubSeq(output.value, 1, w + p) = SubSeq(s, 1, w + p)
           /\ \A i \in (w + p + 1)..(w + 6) : output.value[i] = "0"
           /\ \A t2 \in TimestampValues :
                AgreeTo(input.row, t2, p) =>
                    Eval(normalize_timestamp(input.value, input.coltype), t2)
                        = output.value

C7_Witness ==
    /\ pc = "done"
    /\ input.fn = "normalize_timestamp"
    /\ input.coltype.precision = 3
    /\ input.row.micros = <<"5", "0", "5", "5", "0", "5">>
    /\ SubSeq(output.value, 21, 26) = <<"5", "0", "5", "0", "0", "0">>

\* C8: parse_type turns the name of a nested type into the tree of its
\* ColumnTypes: the item type of an array and the type of every struct field
\* are themselves parsed, whatever commas and colons they contain.
C8_NestedTypesParsed ==
    (pc = "done" /\ input.fn = "parse_type") => output = input.tree

\* C10: the expression of normalize_timestamp is the same for rounds = TRUE
\* and rounds = FALSE, for every value expression and precision.
C10_RoundsFlagIgnored ==
    (pc = "done" /\ input.fn = "normalize_timestamp") =>
        output.expr = normalize_timestamp(
            input.value, [input.coltype EXCEPT !.rounds = ~input.coltype.rounds])

C10_Witness ==
    /\ pc = "done"
    /\ input.fn = "normalize_timestamp"
    /\ input.coltype.rounds
    /\ input.coltype.precision = 3
    /\ output.expr.fn = "rpad"
    /\ output.expr.size = 26

-----------------------------------------------------------------------------
(* The report projection jsonify(diff, dbt_model).  A diff row follows the  *)
(* diff_schema of the tests: <<is_exclusive_a, is_exclusive_b, is_diff_id,  *)
(* is_diff_value, id_a, id_b, value_a, value_b>>.                           *)

\* bound: rows of the diff given to jsonify
MaxDiffRows == 3

Columns == <<"id", "value">>

\* key_columns of the two table segments
KeyColumns == {"id"}

ColumnIndex(c) == CHOOSE i \in 1..Len(Columns) : Columns[i] = c

IsExclusiveA(row) == row[1]

IsExclusiveB(row) == row[2]

\* is_diff_<column>, an int
DiffFlag(row, c) == row[2 + ColumnIndex(c)]

\* <column>_a and <column>_b
ValueA(row, c) == row[2 + Len(Columns) + 2 * ColumnIndex(c) - 1]

ValueB(row, c) == row[2 + Len(Columns) + 2 * ColumnIndex(c)]

\* one entry of rows.exclusive.dataset1
jsonify_exclusive_a(row) ==
    [c \in {Columns[i] : i \in 1..Len(Columns)} |->
        [isPK |-> c \in KeyColumns, value |-> ValueA(row, c)]]

\* one entry of rows.exclusive.dataset2
jsonify_exclusive_b(row) ==
    [c \in {Columns[i] : i \in 1..Len(Columns)} |->
        [isPK |-> c \in KeyColumns, value |-> ValueB(row, c)]]

\* one entry of rows.diff
jsonify_diff(row) ==
    [c \in {Columns[i] : i \in 1..Len(Columns)} |->
        [isPK |-> c \in KeyColumns,
         dataset1 |-> ValueA(row, c),
         dataset2 |-> ValueB(row, c),
         isDiff |-> DiffFlag(row, c) # 0]]

RECURSIVE project_rows_b_also_diff(_)
\* project_rows where a row exclusive to B also falls through to rows.diff
project_rows_b_also_diff(diff) ==
    IF diff = <<>> THEN [dataset1 |-> <<>>, dataset2 |-> <<>>, diff |-> <<>>]
    ELSE LET before == project_rows_b_also_diff(SubSeq(diff, 1, Len(diff) - 1))
             row == diff[Len(diff)]
         IN IF IsExclusiveA(row)
            THEN [before EXCEPT !.dataset1 = Append(@, jsonify_exclusive_a(row))]
            ELSE IF IsExclusiveB(row)
            THEN [before EXCEPT !.dataset2 = Append(@, jsonify_exclusive_b(row)),
                                !.diff = Append(@, jsonify_diff(row))]
            ELSE [before EXCEPT !.diff = Append(@, jsonify_diff(row))]

RECURSIVE project_rows(_)
\* the three lists of the report: the rows are taken in order and each is
\* appended to the list of its class
project_rows(diff) ==
    IF diff = <<>> THEN [dataset1 |-> <<>>, dataset2 |-> <<>>, diff |-> <<>>]
    ELSE LET before == project_rows(SubSeq(diff, 1, Len(diff) - 1))
             row == diff[Len(diff)]
         IN IF IsExclusiveA(row)
            THEN [before EXCEPT !.dataset1 = Append(@, jsonify_exclusive_a(row))]
            ELSE IF IsExclusiveB(row)
            THEN [before EXCEPT !.dataset2 = Append(@, jsonify_exclusive_b(row))]
            ELSE [before EXCEPT !.diff = Append(@, jsonify_diff(row))]

\* jsonify whose result looks at rows.diff only
jsonify_result_from_diff_only(diff, dbt_model) ==
    LET lists == project_rows(diff) IN
    [version  |-> "1.0.0",
     status   |-> "success",
     result   |-> IF lists.diff # <<>> THEN "different" ELSE "identical",
     model    |-> dbt_model,
     dataset1 |-> <<"db", "schema", "table1">>,
     dataset2 |-> <<"db", "schema", "table2">>,
     rows     |-> [exclusive |-> [dataset1 |-> lists.dataset1,
                                  dataset2 |-> lists.dataset2],
                   diff |-> lists.diff],
     summary  |-> None,
     columns  |-> None]

\* jsonify(diff, dbt_model) for the two table segments of the tests
jsonify(diff, dbt_model) ==
    LET lists == project_rows(diff)
        is_different == \/ lists.dataset1 # <<>>
                        \/ lists.dataset2 # <<>>
                        \/ lists.diff # <<>>
    IN [version  |-> "1.0.0",
        status   |-> "success",
        result   |-> IF is_different THEN "different" ELSE "identical",
        model    |-> dbt_model,
        dataset1 |-> <<"db", "schema", "table1">>,
        dataset2 |-> <<"db", "schema", "table2">>,
        rows     |-> [exclusive |-> [dataset1 |-> lists.dataset1,
                                     dataset2 |-> lists.dataset2],
                      diff |-> lists.diff],
        summary  |-> None,
        columns  |-> None]

\* the rows a diff is drawn from: keys on both sides with a differing
\* value, keys on side A only, keys on side B only
DiffRows ==
    { <<FALSE, FALSE, 0, 1, "1", "1", "3", "201">>,
      <<FALSE, FALSE, 0, 1, "4", "4", "7", "8">>,
      <<TRUE, FALSE, 1, 1, "2", None, "4", None>>,
      <<TRUE, FALSE, 1, 1, "5", None, "6", None>>,
      <<FALSE, TRUE, 1, 1, None, "3", None, "202">> }

FormatInputs ==
    { [fn |-> "jsonify", diff |-> d, dbt_model |-> "my_model"] :
        d \in SeqsUpTo(DiffRows, MaxDiffRows) }

-----------------------------------------------------------------------------
(* SpecFormat: Init draws the diff, the action projects it *)

InitFormat ==
    /\ NoAthena
    /\ pc = "start"
    /\ input \in FormatInputs
    /\ output = Nothing

Jsonify ==
    /\ pc = "start"
    /\ input.fn = "jsonify"
    /\ output' = jsonify(input.diff, input.dbt_model)
    /\ pc' = "done"
    /\ UNCHANGED <<default_schema, conn, is_closed, cursors, call, input>>

NextFormat == Jsonify

SpecFormat == InitFormat /\ [][NextFormat]_vars

-----------------------------------------------------------------------------
(* Claims about the report (specification SpecFormat) *)

\* the rows of a diff that belong to each list, in the order of the diff
RowsOnlyInA(diff) == LET keep(row) == row[1] IN SelectSeq(diff, keep)

RowsOnlyInB(diff) == LET keep(row) == ~row[1] /\ row[2] IN SelectSeq(diff, keep)

RowsInBoth(diff) == LET keep(row) == ~row[1] /\ ~row[2] IN SelectSeq(diff, keep)

\* C2: the report partitions the rows of the diff: the rows exclusive to A are
\* rows.exclusive.dataset1 with the A-side values, those exclusive to B are
\* rows.exclusive.dataset2 with the B-side values, the others are rows.diff
\* with both sides' values; each list keeps the order of the diff, no row is
\* in two lists or dropped, isPK holds exactly for the key column and isDiff
\* is the row's flag of the column.
C2_RowsPartitioned ==
    (pc = "done" /\ input.fn = "jsonify") =>
        LET a == RowsOnlyInA(input.diff)
            b == RowsOnlyInB(input.diff)
            both == RowsInBoth(input.diff)
            d1 == output.rows.exclusive.dataset1
            d2 == output.rows.exclusive.dataset2
            df == output.rows.diff
        IN /\ Len(d1) = Len(a) /\ Len(d2) = Len(b) /\ Len(df) = Len(both)
           /\ Len(d1) + Len(d2) + Len(df) = Len(input.diff)
           /\ \A i \in 1..Len(a) :
                /\ d1[i].id = [isPK |-> TRUE, value |-> a[i][5]]
                /\ d1[i].value = [isPK |-> FALSE, value |-> a[i][7]]
           /\ \A i \in 1..Len(b) :
                /\ d2[i].id = [isPK |-> TRUE, value |-> b[i][6]]
                /\ d2[i].value = [isPK |-> FALSE, value |-> b[i][8]]
           /\ \A i \in 1..Len(both) :
                /\ df[i].id = [isPK |-> TRUE, dataset1 |-> both[i][5],
                               dataset2 |-> both[i][6], isDiff |-> both[i][3] = 1]
                /\ df[i].value = [isPK |-> FALSE, dataset1 |-> both[i][7],
                                  dataset2 |-> both[i][8], isDiff |-> both[i][4] = 1]

\* the diff and the report of TestFormat.test_jsonify_diff
C2_Witness ==
    /\ pc = "done"
    /\ input.fn = "jsonify"
    /\ input.diff = << <<FALSE, FALSE, 0, 1, "1", "1", "3", "201">>,
                       <<TRUE, FALSE, 1, 1, "2", None, "4", None>>,
                       <<FALSE, TRUE, 1, 1, None, "3", None, "202">> >>
    /\ output.rows.exclusive.dataset1 =
        << [id |-> [isPK |-> TRUE, value |-> "2"],
            value |-> [isPK |-> FALSE, value |-> "4"]] >>
    /\ output.rows.exclusive.dataset2 =
        << [id |-> [isPK |-> TRUE, value |-> "3"],
            value |-> [isPK |-> FALSE, value |-> "202"]] >>
    /\ output.rows.diff =
        << [id |-> [isPK |-> TRUE, dataset1 |-> "1", dataset2 |-> "1",
                    isDiff |-> FALSE],
            value |-> [isPK |-> FALSE, dataset1 |-> "3", dataset2 |-> "201",
                       isDiff |-> TRUE]] >>

\* C3: the report of a diff without rows has status "success", result
\* "identical" and the three lists present and empty; the report of a diff
\* with at least one row has result "different".
C3_EmptyDiffIdentical ==
    (pc = "done" /\ input.fn = "jsonify") =>
        /\ output.status = "success"
        /\ input.diff = <<>> =>
            /\ output.result = "identical"
            /\ DOMAIN output.rows = {"exclusive", "diff"}
            /\ DOMAIN output.rows.exclusive = {"dataset1", "dataset2"}
            /\ output.rows.exclusive.dataset1 = <<>>
            /\ output.rows.exclusive.dataset2 = <<>>
            /\ output.rows.diff = <<>>
        /\ input.diff # <<>> => output.result = "different"

\* the report of TestFormat.test_jsonify_diff_no_difeference
C3_Witness ==
    /\ pc = "done"
    /\ input.fn = "jsonify"
    /\ input.diff = <<>>
    /\ output.result = "identical"
    /\ output.rows = [exclusive |-> [dataset1 |-> <<>>, dataset2 |-> <<>>],
                      diff |-> <<>>]

=============================================================================
